---- MODULE Spec2Model ----
(***************************************************************************)
(* Model of assignCIDRsToSubnets (upup/pkg/fi/cloudup/subnets.go): the     *)
(* automatic assignment of CIDR blocks of the cluster's NetworkCIDR to the *)
(* subnets of the cluster that do not declare one.                         *)
(*                                                                         *)
(* Addresses are Width-bit naturals instead of 32-bit IPv4 addresses.  A   *)
(* CIDR string "a.b.c.d/n" is the pair <<ip, n>> (ip may carry host bits,  *)
(* as a string may), "" is EmptyString and a string that does not parse is *)
(* Malformed.  A parsed network (net.IPNet) is [IP |-> base, Bits |-> n].  *)
(* Zones are naturals, compared as the zone strings are.  A subnet is      *)
(* named by its position in c.Spec.Networking.Subnets.                     *)
(***************************************************************************)
EXTENDS Integers, Sequences, FiniteSets, TLC

\* ------------------------------------------------------------------ bounds
Width == 7
MaxMixed == 2
MaxRefs == 2
MaxUtility == 9
MaxPrimary == 9
MaxCalls == 2

\* ------------------------------------------------------- strings and nets
EmptyString == <<>>
Malformed == <<0>>

Pow2(n) == 2 ^ n

Net(ip, bits) == [IP |-> ip, Bits |-> bits]

Size(n) == Pow2(Width - n.Bits)

\* net.ParseCIDR: err # nil
ParseFails(s) ==
    ~ (Len(s) = 2 /\ s[2] \in 0..Width /\ s[1] \in 0..(Pow2(Width) - 1))

\* net.ParseCIDR: the *net.IPNet result, the address masked to the prefix
ParseCIDR(s) == Net(s[1] - (s[1] % Pow2(Width - s[2])), s[2])

\* (*net.IPNet).Contains
Contains(n, ip) == ip - (ip % Size(n)) = n.IP

\* (*net.IPNet).String: the canonical text of a network
String(n) == <<n.IP, n.Bits>>

\* subnet.SplitInto1/2/4/8: 2^k equal sibling blocks covering the parent, in
\* ascending address order
SplitFails(parent, k) == parent.Bits + k > Width

SplitInto(parent, k) ==
    [i \in 1..Pow2(k) |->
        Net(parent.IP + (i - 1) * Pow2(Width - parent.Bits - k), parent.Bits + k)]

\* subnet.Overlap: the two address ranges intersect
Overlap(l, r) ==
    /\ l.IP <= r.IP + Size(r) - 1
    /\ r.IP <= l.IP + Size(l) - 1

\* ------------------------------------------------------------ declarations
\* kops.ClusterSubnetSpec
Decl(zone, type, cidr, ipv6, id) ==
    [Zone |-> zone, Type |-> type, CIDR |-> cidr, IPv6CIDR |-> ipv6, ID |-> id]

\* fi.SubnetInfo
SubnetInfo(id, zone, cidr) == [ID |-> id, Zone |-> zone, CIDR |-> cidr]

\* the outcome of cloud.FindVPCInfo: (nil, err), (nil, nil) or (vpcInfo, nil)
VPCInfo(failed, found, infos) == [Failed |-> failed, Found |-> found, Subnets |-> infos]

\* error values; Name is the position of the subnet the message names, or 0
Err(kind, name) == [Kind |-> kind, Name |-> name]
Nil == Err("nil", 0)

\* ------------------------------------------------------------------ inputs
ParentBase == Pow2(Width - 1)
ParentText == <<ParentBase, 1>>
ParentWithHostBits == <<ParentBase + 1, 1>>
SingleAddressParent == <<ParentBase, Width>>
FirstHalf == <<ParentBase, 2>>
FirstHalfWithHostBits == <<ParentBase + 1, 2>>
ThirdQuarter == <<ParentBase + Pow2(Width - 2), 3>>
InFirstQuarter == <<ParentBase + 1, 3>>
Supernet == <<0, 0>>
Outside == <<0, 1>>
V6 == <<1>>

SeqsUpTo(S, n) == UNION {[1..k -> S] : k \in 0..n}

MixedDecls ==
    {Decl(z, "Public", EmptyString, EmptyString, "") : z \in 1..2}
    \cup {Decl(z, "Utility", EmptyString, EmptyString, "") : z \in 1..2}
    \cup {Decl(z, "Private", EmptyString, V6, "") : z \in 1..2}
    \cup {Decl(1, "Private", EmptyString, EmptyString, ""),
          Decl(2, "DualStack", EmptyString, EmptyString, ""),
          Decl(1, "", EmptyString, EmptyString, ""),
          Decl(1, "Public", FirstHalf, EmptyString, ""),
          Decl(2, "Private", ThirdQuarter, V6, ""),
          Decl(1, "Utility", InFirstQuarter, EmptyString, ""),
          Decl(2, "Public", Supernet, EmptyString, ""),
          Decl(1, "", Outside, EmptyString, ""),
          Decl(2, "Public", Malformed, EmptyString, "")}

MixedInputs ==
    {[Subnets |-> s, NetworkCIDR |-> p, NetworkID |-> "", Cloud |-> VPCInfo(TRUE, FALSE, <<>>)] :
        s \in SeqsUpTo(MixedDecls, MaxMixed),
        p \in {ParentText, ParentWithHostBits, SingleAddressParent, Malformed}}

\* v private subnets with an ipv6Cidr, m public and k utility subnets, none
\* with a cidr, each class in ascending or descending zone order
Padding(k, m, v, desc) ==
    [i \in 1..(v + m + k) |->
        IF i <= v THEN Decl(1, "Private", EmptyString, V6, "")
        ELSE IF i <= v + m
             THEN Decl(IF desc THEN m + 1 - (i - v) ELSE i - v, "Public", EmptyString, EmptyString, "")
             ELSE Decl(IF desc THEN k + 1 - (i - v - m) ELSE i - v - m, "Utility", EmptyString, EmptyString, "")]

PaddedPrefixes ==
    {<<>>,
     <<Decl(1, "Public", FirstHalf, EmptyString, "")>>,
     <<Decl(1, "Utility", InFirstQuarter, EmptyString, "")>>,
     <<Decl(2, "Public", Supernet, EmptyString, "")>>,
     <<Decl(2, "DualStack", ThirdQuarter, EmptyString, "")>>}

PaddedInputs ==
    {[Subnets |-> pre \o Padding(k, m, v, desc), NetworkCIDR |-> ParentText,
      NetworkID |-> "", Cloud |-> VPCInfo(TRUE, FALSE, <<>>)] :
        pre \in PaddedPrefixes, k \in 0..MaxUtility, m \in 0..MaxPrimary,
        v \in 0..1, desc \in BOOLEAN}

RefDecls ==
    {Decl(1, "Public", cidr, EmptyString, id) :
        cidr \in {EmptyString, FirstHalf, FirstHalfWithHostBits},
        id \in {"", "subnet-1", "subnet-2"}}

Clouds ==
    {VPCInfo(TRUE, FALSE, <<>>),
     VPCInfo(FALSE, FALSE, <<>>),
     VPCInfo(FALSE, TRUE, <<>>),
     VPCInfo(FALSE, TRUE, <<SubnetInfo("subnet-1", 1, FirstHalf)>>),
     VPCInfo(FALSE, TRUE, <<SubnetInfo("subnet-1", 2, FirstHalf)>>),
     VPCInfo(FALSE, TRUE, <<SubnetInfo("subnet-1", 1, EmptyString)>>),
     VPCInfo(FALSE, TRUE, <<SubnetInfo("subnet-1", 1, FirstHalf),
                            SubnetInfo("subnet-2", 1, ThirdQuarter)>>),
     VPCInfo(FALSE, TRUE, <<SubnetInfo("subnet-1", 1, Supernet),
                            SubnetInfo("subnet-1", 1, FirstHalf)>>)}

RefInputs ==
    {[Subnets |-> s, NetworkCIDR |-> p, NetworkID |-> "vpc-1", Cloud |-> cl] :
        s \in SeqsUpTo(RefDecls, MaxRefs), p \in {ParentText, Malformed}, cl \in Clouds}
    \cup {[Subnets |-> s, NetworkCIDR |-> ParentText, NetworkID |-> "",
           Cloud |-> VPCInfo(TRUE, FALSE, <<>>)] : s \in SeqsUpTo(RefDecls, MaxRefs)}

Inputs == MixedInputs \cup PaddedInputs \cup RefInputs

\* ------------------------------------------------------------------- state
VARIABLES
    Subnets,        \* c.Spec.Networking.Subnets
    NetworkCIDR,    \* c.Spec.Networking.NetworkCIDR
    NetworkID,      \* c.Spec.Networking.NetworkID
    cloud,          \* what cloud.FindVPCInfo returns
    pc,             \* the position of the call in assignCIDRsToSubnets
    err,            \* the error the call returned
    cidr,           \* the parsed NetworkCIDR
    bigSubnets,     \* positions of the collected primary subnets, sorted
    littleSubnets,  \* positions of the collected utility subnets, sorted
    reserved,       \* the networks of the collected subnets that have a CIDR
    bigCIDRs,
    nonOverlapping,
    littleCIDRs,
    assigned,       \* the "Assigned CIDR %s to subnet %s" log lines of the call
    lookups,        \* the number of FindVPCInfo calls of the call
    calls,          \* the number of calls made so far
    before,         \* Subnets when the current call was made
    prevErr         \* the error of the previous call

vars == <<Subnets, NetworkCIDR, NetworkID, cloud, pc, err, cidr, bigSubnets, littleSubnets,
          reserved, bigCIDRs, nonOverlapping, littleCIDRs, assigned, lookups, calls, before,
          prevErr>>

input == <<NetworkCIDR, NetworkID, cloud>>
locals == <<cidr, bigSubnets, littleSubnets, reserved, bigCIDRs, nonOverlapping, littleCIDRs>>
history == <<calls, before, prevErr>>

NoNet == Net(0, 0)

Init ==
    /\ \E in \in Inputs :
        /\ Subnets = in.Subnets
        /\ before = in.Subnets
        /\ NetworkCIDR = in.NetworkCIDR
        /\ NetworkID = in.NetworkID
        /\ cloud = in.Cloud
    /\ pc = "entry"
    /\ err = Nil
    /\ cidr = NoNet
    /\ bigSubnets = <<>>
    /\ littleSubnets = <<>>
    /\ reserved = <<>>
    /\ bigCIDRs = <<>>
    /\ nonOverlapping = <<>>
    /\ littleCIDRs = <<>>
    /\ assigned = <<>>
    /\ lookups = 0
    /\ calls = 1
    /\ prevErr = Nil

\* ------------------------------------------------- lines 50-96: resolution
allSubnetsHaveCIDRsNonEmpty(subs) ==
    subs # <<>> /\ \A i \in DOMAIN subs : subs[i].CIDR # EmptyString

allSubnetsHaveCIDRs(subs) == \A i \in DOMAIN subs : subs[i].CIDR # EmptyString

Max(S) == CHOOSE x \in S : \A y \in S : y <= x

\* subnetByID, built by the loop of lines 65-68: a later record replaces an
\* earlier one with the same ID
HasSubnetID(infos, id) == \E j \in DOMAIN infos : infos[j].ID = id
subnetByID(infos, id) == infos[Max({j \in DOMAIN infos : infos[j].ID = id})]

\* lines 76-87 for one subnet with an ID and its record: the CIDR the subnet
\* is left with and the kind of the error returned
CrossCheckOneOverwrites(subnet, cloudSubnet) ==
    IF subnet.CIDR = EmptyString /\ cloudSubnet.CIDR = EmptyString
    THEN [CIDR |-> cloudSubnet.CIDR, Kind |-> "MissingExternalCIDR"]
    ELSE IF subnet.CIDR # EmptyString /\ subnet.CIDR # cloudSubnet.CIDR
    THEN [CIDR |-> cloudSubnet.CIDR, Kind |-> "CIDRMismatch"]
    ELSE IF subnet.Zone # cloudSubnet.Zone
    THEN [CIDR |-> cloudSubnet.CIDR, Kind |-> "ZoneMismatch"]
    ELSE [CIDR |-> cloudSubnet.CIDR, Kind |-> "nil"]

CrossCheckOneNoZone(subnet, cloudSubnet) ==
    IF subnet.CIDR = EmptyString /\ cloudSubnet.CIDR = EmptyString
    THEN [CIDR |-> cloudSubnet.CIDR, Kind |-> "MissingExternalCIDR"]
    ELSE IF subnet.CIDR # EmptyString /\ subnet.CIDR # cloudSubnet.CIDR
    THEN [CIDR |-> subnet.CIDR, Kind |-> "CIDRMismatch"]
    ELSE [CIDR |-> cloudSubnet.CIDR, Kind |-> "nil"]

CrossCheckOne(subnet, cloudSubnet) ==
    IF subnet.CIDR = EmptyString /\ cloudSubnet.CIDR = EmptyString
    THEN [CIDR |-> cloudSubnet.CIDR, Kind |-> "MissingExternalCIDR"]
    ELSE IF subnet.CIDR # EmptyString /\ subnet.CIDR # cloudSubnet.CIDR
    THEN [CIDR |-> subnet.CIDR, Kind |-> "CIDRMismatch"]
    ELSE IF subnet.Zone # cloudSubnet.Zone
    THEN [CIDR |-> cloudSubnet.CIDR, Kind |-> "ZoneMismatch"]
    ELSE [CIDR |-> cloudSubnet.CIDR, Kind |-> "nil"]

\* the loop of lines 69-90 from position i on
RECURSIVE CrossCheck(_, _, _)
CrossCheck(i, subs, infos) ==
    IF i > Len(subs) THEN [Subnets |-> subs, Err |-> Nil]
    ELSE IF subs[i].ID = "" THEN CrossCheck(i + 1, subs, infos)
    ELSE IF ~ HasSubnetID(infos, subs[i].ID)
         THEN [Subnets |-> subs, Err |-> Err("ExternalSubnetNotFound", i)]
    ELSE LET r == CrossCheckOne(subs[i], subnetByID(infos, subs[i].ID))
             checked == [subs EXCEPT ![i].CIDR = r.CIDR]
         IN  IF r.Kind # "nil"
             THEN [Subnets |-> checked, Err |-> Err(r.Kind, i)]
             ELSE CrossCheck(i + 1, checked, infos)

Return(e) ==
    /\ pc' = "return"
    /\ err' = e

Resolve ==
    /\ pc = "entry"
    /\ UNCHANGED <<input, locals, history, assigned>>
    /\ IF allSubnetsHaveCIDRs(Subnets)
       THEN Return(Nil) /\ UNCHANGED <<Subnets, lookups>>
       ELSE IF NetworkID = ""
       THEN pc' = "collect" /\ UNCHANGED <<Subnets, lookups, err>>
       ELSE /\ lookups' = lookups + 1
            /\ IF cloud.Failed
               THEN Return(Err("LookupFailure", 0)) /\ UNCHANGED Subnets
               ELSE IF ~ cloud.Found
               THEN Return(Err("VPCNotFound", 0)) /\ UNCHANGED Subnets
               ELSE LET r == CrossCheck(1, Subnets, cloud.Subnets)
                    IN  /\ Subnets' = r.Subnets
                        /\ IF r.Err # Nil THEN Return(r.Err)
                           ELSE IF allSubnetsHaveCIDRs(r.Subnets) THEN Return(Nil)
                           ELSE pc' = "collect" /\ UNCHANGED err

\* ------------------------------------------------ lines 98-146: collection
\* the loop of lines 111-142 from position i on
RECURSIVE CollectFrom(_, _, _, _, _, _)
CollectFrom(i, subs, parent, big, little, res) ==
    IF i > Len(subs) THEN [Err |-> Nil, Big |-> big, Little |-> little, Reserved |-> res]
    ELSE IF subs[i].CIDR # EmptyString /\ ParseFails(subs[i].CIDR)
         THEN [Err |-> Err("InvalidSubnetCIDR", i), Big |-> big, Little |-> little, Reserved |-> res]
    ELSE IF subs[i].CIDR # EmptyString /\ ~ Contains(parent, ParseCIDR(subs[i].CIDR).IP)
         THEN CollectFrom(i + 1, subs, parent, big, little, res)
    ELSE LET res2 == IF subs[i].CIDR # EmptyString
                     THEN Append(res, ParseCIDR(subs[i].CIDR))
                     ELSE res
         IN  IF subs[i].Type \in {"DualStack", "Public", "Private"}
             THEN CollectFrom(i + 1, subs, parent, Append(big, i), little, res2)
             ELSE IF subs[i].Type = "Utility"
             THEN CollectFrom(i + 1, subs, parent, big, Append(little, i), res2)
             ELSE [Err |-> Err("UnknownSubnetRole", i), Big |-> big, Little |-> little,
                   Reserved |-> res]

Range(q) == {q[i] : i \in DOMAIN q}

Min(S) == CHOOSE x \in S : \A y \in S : x <= y

RECURSIVE ByZoneUnsorted(_, _)
ByZoneUnsorted(S, subs) ==
    IF S = {} THEN {<<>>}
    ELSE {<<Min(S)>> \o t : t \in ByZoneUnsorted(S \ {Min(S)}, subs)}

\* sort.Sort(ByZone(...)): the orders of the positions S in which Less never
\* holds from a later to an earlier element; sort.Sort is not stable, so
\* subnets of equal zone may come out in any order
RECURSIVE ByZone(_, _)
ByZone(S, subs) ==
    IF S = {} THEN {<<>>}
    ELSE LET lowest == Min({subs[i].Zone : i \in S})
         IN  UNION {{<<f>> \o t : t \in ByZone(S \ {f}, subs)} :
                        f \in {i \in S : subs[i].Zone = lowest}}

Collect ==
    /\ pc = "collect"
    /\ UNCHANGED <<input, history, Subnets, assigned, lookups, bigCIDRs, nonOverlapping,
                   littleCIDRs>>
    /\ IF ParseFails(NetworkCIDR)
       THEN /\ Return(Err("InvalidParentCIDR", 0))
            /\ UNCHANGED <<cidr, bigSubnets, littleSubnets, reserved>>
       ELSE LET parent == ParseCIDR(NetworkCIDR)
                r == CollectFrom(1, Subnets, parent, <<>>, <<>>, <<>>)
            IN  /\ cidr' = parent
                /\ IF r.Err # Nil
                   THEN /\ Return(r.Err)
                        /\ UNCHANGED <<bigSubnets, littleSubnets, reserved>>
                   ELSE /\ bigSubnets' \in ByZone(Range(r.Big), Subnets)
                        /\ littleSubnets' \in ByZone(Range(r.Little), Subnets)
                        /\ reserved' = r.Reserved
                        /\ pc' = "split"
                        /\ UNCHANGED err

\* ------------------------------------------------- lines 148-165: the split
cidrCount(big, little) == Len(big) + (IF Len(little) > 0 THEN 1 ELSE 0)

SplitBitsOffByOne(count) ==
    IF count < 1 THEN 0
    ELSE IF count < 2 THEN 1
    ELSE IF count < 4 THEN 2
    ELSE 3

\* the number of halvings of the branch taken at lines 154-162
SplitBits(count) ==
    IF count <= 1 THEN 0
    ELSE IF count <= 2 THEN 1
    ELSE IF count <= 4 THEN 2
    ELSE 3

Split ==
    /\ pc = "split"
    /\ UNCHANGED <<input, history, Subnets, assigned, lookups, cidr, bigSubnets, littleSubnets,
                   reserved, nonOverlapping, littleCIDRs>>
    /\ LET k == SplitBits(cidrCount(bigSubnets, littleSubnets))
       IN  IF SplitFails(cidr, k)
           THEN Return(Err("SplitError", 0)) /\ UNCHANGED bigCIDRs
           ELSE /\ bigCIDRs' = SplitInto(cidr, k)
                /\ pc' = "filter"
                /\ UNCHANGED err

\* ------------------------------------------------ lines 167-186: filtering
Overlapped(c, res) == \E j \in DOMAIN res : Overlap(res[j], c)

FilterOverlapping(cidrs, res) == SelectSeq(cidrs, LAMBDA c : ~ Overlapped(c, res))

Filter ==
    /\ pc = "filter"
    /\ UNCHANGED <<input, history, Subnets, assigned, lookups, cidr, bigSubnets, littleSubnets,
                   reserved, littleCIDRs>>
    /\ nonOverlapping' = FilterOverlapping(bigCIDRs, reserved)
    /\ bigCIDRs' = nonOverlapping'
    /\ IF Len(nonOverlapping') = 0
       THEN Return(Err("NoCIDRsAvailable", 0))
       ELSE pc' = "little" /\ UNCHANGED err

\* ------------------------------------------------ lines 188-229: assignment
SkippedIgnoresIPv6(subnet, big) == subnet.CIDR # EmptyString

\* whether the loop passes over the subnet without taking a block
Skipped(subnet, big) ==
    \/ subnet.CIDR # EmptyString
    \/ big /\ subnet.IPv6CIDR # EmptyString /\ subnet.Type = "Private"

\* the loops of lines 196-208 (big = FALSE) and 212-227 (big = TRUE) over the
\* rest `order` of the sorted subnets, with `pool` the blocks still free
RECURSIVE Assign(_, _, _, _, _)
Assign(order, subs, pool, log, big) ==
    IF order = <<>> THEN [Subnets |-> subs, Pool |-> pool, Log |-> log, Err |-> Nil]
    ELSE IF Skipped(subs[Head(order)], big) THEN Assign(Tail(order), subs, pool, log, big)
    ELSE IF Len(pool) = 0
         THEN [Subnets |-> subs, Pool |-> pool, Log |-> log,
               Err |-> Err("InsufficientCIDRs", Head(order))]
    ELSE Assign(Tail(order),
                [subs EXCEPT ![Head(order)].CIDR = String(Head(pool))],
                Tail(pool),
                Append(log, <<Head(order), String(Head(pool))>>),
                big)

AssignLittle ==
    /\ pc = "little"
    /\ UNCHANGED <<input, history, lookups, cidr, bigSubnets, littleSubnets, reserved,
                   nonOverlapping>>
    /\ IF Len(littleSubnets) > 0
       THEN IF SplitFails(bigCIDRs[1], 3)
            THEN /\ Return(Err("SplitError", 0))
                 /\ UNCHANGED <<Subnets, bigCIDRs, littleCIDRs, assigned>>
            ELSE LET r == Assign(littleSubnets, Subnets, SplitInto(bigCIDRs[1], 3), assigned,
                                 FALSE)
                 IN  /\ bigCIDRs' = Tail(bigCIDRs)
                     /\ Subnets' = r.Subnets
                     /\ littleCIDRs' = r.Pool
                     /\ assigned' = r.Log
                     /\ IF r.Err # Nil THEN Return(r.Err)
                        ELSE pc' = "big" /\ UNCHANGED err
       ELSE /\ pc' = "big"
            /\ UNCHANGED <<Subnets, bigCIDRs, littleCIDRs, assigned, err>>

AssignBig ==
    /\ pc = "big"
    /\ UNCHANGED <<input, history, lookups, cidr, bigSubnets, littleSubnets, reserved,
                   nonOverlapping, littleCIDRs>>
    /\ LET r == Assign(bigSubnets, Subnets, bigCIDRs, assigned, TRUE)
       IN  /\ Subnets' = r.Subnets
           /\ bigCIDRs' = r.Pool
           /\ assigned' = r.Log
           /\ Return(r.Err)

\* ------------------------------------------------------------ the next call
\* the caller runs assignCIDRsToSubnets again on the cluster as the last call
\* left it
Invoke ==
    /\ pc = "return"
    /\ calls < MaxCalls
    /\ calls' = calls + 1
    /\ before' = Subnets
    /\ prevErr' = err
    /\ pc' = "entry"
    /\ err' = Nil
    /\ cidr' = NoNet
    /\ bigSubnets' = <<>>
    /\ littleSubnets' = <<>>
    /\ reserved' = <<>>
    /\ bigCIDRs' = <<>>
    /\ nonOverlapping' = <<>>
    /\ littleCIDRs' = <<>>
    /\ assigned' = <<>>
    /\ lookups' = 0
    /\ UNCHANGED <<input, Subnets>>

Next ==
    \/ Resolve
    \/ Collect
    \/ Split
    \/ Filter
    \/ AssignLittle
    \/ AssignBig
    \/ Invoke

Spec == Init /\ [][Next]_vars

\* ------------------------------------------------------------------ claims
Returned == pc = "return"
Succeeded == pc = "return" /\ err = Nil

\* the positions the assignment loops wrote a block to in this call
Written == {assigned[k][1] : k \in DOMAIN assigned}

\* network n lies inside network parent
Within(n, parent) == n.Bits >= parent.Bits /\ Contains(parent, n.IP)

\* the two address ranges share an address
Intersect(l, r) ==
    \E a \in 0..(Pow2(Width) - 1) :
        /\ l.IP <= a /\ a < l.IP + Size(l)
        /\ r.IP <= a /\ a < r.IP + Size(r)

\* C1: after a successful run every cidr the assignment wrote lies inside the
\* parent block and overlaps the cidr of no other declaration (pre-declared or
\* assigned in the same run).  Cidrs copied from the external records are left
\* out: the statement fails already for the blocks the run hands out itself.
C1_AssignedDisjoint ==
    Succeeded =>
        \A i \in Written :
            /\ ~ ParseFails(Subnets[i].CIDR)
            /\ Within(ParseCIDR(Subnets[i].CIDR), cidr)
            /\ \A j \in DOMAIN Subnets :
                (j # i /\ Subnets[j].CIDR # EmptyString /\ ~ ParseFails(Subnets[j].CIDR))
                    => ~ Intersect(ParseCIDR(Subnets[i].CIDR), ParseCIDR(Subnets[j].CIDR))

\* C2 (as stated): a run that returns an error other than InsufficientCIDRs
\* leaves the cidr of every declaration as it was before the call.
OtherError == pc = "return" /\ err.Kind \notin {"nil", "InsufficientCIDRs"}

C2_Original ==
    OtherError => \A i \in DOMAIN Subnets : Subnets[i].CIDR = before[i].CIDR

\* declaration i had an id and no cidr, and now holds the cidr of the external
\* record of that id
CopiedFromRecord(i) ==
    /\ NetworkID # ""
    /\ before[i].ID # ""
    /\ before[i].CIDR = EmptyString
    /\ HasSubnetID(cloud.Subnets, before[i].ID)
    /\ Subnets[i].CIDR = subnetByID(cloud.Subnets, before[i].ID).CIDR

\* C2 (amended): a run that returns an error other than InsufficientCIDRs has
\* assigned no block, and the cidr of every declaration is as it was before
\* the call, except that a declaration with an id and no cidr may hold the
\* cidr copied from its external record by the cross-check.
C2_OnlyCopies ==
    OtherError =>
        /\ assigned = <<>>
        /\ DOMAIN Subnets = DOMAIN before
        /\ \A i \in DOMAIN Subnets :
            Subnets[i].CIDR = before[i].CIDR \/ CopiedFromRecord(i)

C2_Witness ==
    /\ OtherError
    /\ err.Kind = "InvalidParentCIDR"
    /\ \E i \in DOMAIN Subnets : Subnets[i].CIDR # before[i].CIDR

\* C3 (as stated): with a network identifier, a run succeeds only if every
\* declaration with an id has its id among the external records, the zone of
\* the record and the cidr of the record; a declaration whose pre-set cidr or
\* zone differs from its record makes the run fail with CIDRMismatch or
\* ZoneMismatch.
EveryCIDRSet(subs) == \A i \in DOMAIN subs : subs[i].CIDR # EmptyString

Referenced(i) == before[i].ID # ""

Record(i) == subnetByID(cloud.Subnets, before[i].ID)

MatchesRecord(i) ==
    /\ ~ cloud.Failed /\ cloud.Found
    /\ HasSubnetID(cloud.Subnets, before[i].ID)
    /\ before[i].Zone = Record(i).Zone
    /\ Subnets[i].CIDR = Record(i).CIDR

DiffersFromRecord(i) ==
    /\ ~ cloud.Failed /\ cloud.Found
    /\ HasSubnetID(cloud.Subnets, before[i].ID)
    /\ \/ before[i].CIDR # EmptyString /\ before[i].CIDR # Record(i).CIDR
       \/ before[i].Zone # Record(i).Zone

C3_Original ==
    (pc = "return" /\ NetworkID # "") =>
        /\ err = Nil => \A i \in DOMAIN before : Referenced(i) => MatchesRecord(i)
        /\ \A i \in DOMAIN before :
            (Referenced(i) /\ DiffersFromRecord(i))
                => err.Kind \in {"CIDRMismatch", "ZoneMismatch"}

\* C3 (amended): with a network identifier and at least one declaration
\* without a cidr at entry, a run succeeds only if every declaration with an
\* id has its id among the external records, the zone of the record and the
\* cidr of the record; a declaration whose pre-set cidr or zone differs from
\* its record makes the run fail with a cross-check error naming that
\* declaration or an earlier one.
C3_CrossChecked ==
    (pc = "return" /\ NetworkID # "" /\ ~ EveryCIDRSet(before)) =>
        /\ err = Nil => \A i \in DOMAIN before : Referenced(i) => MatchesRecord(i)
        /\ \A i \in DOMAIN before :
            (Referenced(i) /\ DiffersFromRecord(i))
                => /\ err.Kind \in {"ExternalSubnetNotFound", "MissingExternalCIDR",
                                    "CIDRMismatch", "ZoneMismatch"}
                   /\ err.Name \in 1..i

C3_Witness ==
    /\ Succeeded
    /\ NetworkID # ""
    /\ ~ EveryCIDRSet(before)
    /\ assigned # <<>>
    /\ \E i \in DOMAIN before : Referenced(i) /\ before[i].CIDR # EmptyString

\* C4: a run that fails with InsufficientCIDRs names the first subnet in
\* processing order (utility subnets in zone order, then primary subnets in
\* zone order) that has no cidr, is not a private subnet with an ipv6Cidr and
\* finds its pool empty; the subnets before it keep the block assigned to them
\* in this run, and it and the subnets after it are left as they were.  A run
\* that succeeds has left no such subnet behind.
Order == littleSubnets \o bigSubnets

Pos(i) == CHOOSE k \in DOMAIN Order : Order[k] = i

IsBig(i) == i \in Range(bigSubnets)

PrivateWithIPv6(i) == Subnets[i].Type = "Private" /\ Subnets[i].IPv6CIDR # EmptyString

NotAssigned(i) ==
    /\ i \notin Written
    /\ Subnets[i].CIDR = before[i].CIDR \/ CopiedFromRecord(i)

Satisfied(i) == Subnets[i].CIDR # EmptyString \/ (IsBig(i) /\ PrivateWithIPv6(i))

C4_Insufficient ==
    /\ Succeeded => \A i \in Range(Order) : Satisfied(i)
    /\ (pc = "return" /\ err.Kind = "InsufficientCIDRs") =>
            /\ err.Name \in Range(Order)
            /\ Subnets[err.Name].CIDR = EmptyString
            /\ ~ (IsBig(err.Name) /\ PrivateWithIPv6(err.Name))
            /\ (IF IsBig(err.Name) THEN bigCIDRs ELSE littleCIDRs) = <<>>
            /\ \A k \in DOMAIN assigned :
                /\ before[assigned[k][1]].CIDR = EmptyString
                /\ Subnets[assigned[k][1]].CIDR = assigned[k][2]
            /\ \A k \in DOMAIN Order :
                IF k < Pos(err.Name)
                THEN \/ Order[k] \in Written
                     \/ NotAssigned(Order[k]) /\ Subnets[Order[k]].CIDR # EmptyString
                     \/ NotAssigned(Order[k]) /\ IsBig(Order[k]) /\ PrivateWithIPv6(Order[k])
                ELSE NotAssigned(Order[k])

C4_Witness ==
    /\ pc = "return"
    /\ err.Kind = "InsufficientCIDRs"
    /\ IsBig(err.Name)
    /\ assigned # <<>>
    /\ Pos(err.Name) < Len(Order)

\* C5: at least one of the 8 blocks of the set-aside block is never assigned:
\* a successful run assigns at most 7 of them, however many utility subnets
\* lack a cidr.
C5_SpareBlock == Succeeded => Cardinality(Written \cap Range(littleSubnets)) <= 7

\* C6: the parent block is split into n blocks, n the smallest of 1, 2, 4, 8
\* that is at least the slot count and 8 when the slot count exceeds 8, the
\* slot count being the number of collected primary subnets plus one if any
\* utility subnet was collected; the step raises no error but a split error.
SlotCount == Len(bigSubnets) + (IF littleSubnets # <<>> THEN 1 ELSE 0)

BlockCount == IF SlotCount > 8 THEN 8 ELSE Min({n \in {1, 2, 4, 8} : n >= SlotCount})

C7_NoOp ==
    EveryCIDRSet(before) =>
        /\ pc \in {"entry", "return"}
        /\ Subnets = before
        /\ lookups = 0
        /\ pc = "return" => err = Nil

C7_Witness ==
    /\ pc = "return"
    /\ calls >= 2
    /\ before # <<>>
    /\ EveryCIDRSet(before)
    /\ NetworkID # ""
    /\ ParseFails(NetworkCIDR)
    /\ \E i \in DOMAIN before : before[i].ID # ""

\* C8: of two subnets of the same class that are both assigned a block in the
\* same run, the one of the lower zone holds the block of the lower address.
SameClass(i, j) == (Subnets[i].Type = "Utility") = (Subnets[j].Type = "Utility")

C8_ZoneOrder ==
    \A x, y \in DOMAIN assigned :
        (/\ SameClass(assigned[x][1], assigned[y][1])
         /\ Subnets[assigned[x][1]].Zone < Subnets[assigned[y][1]].Zone)
            => /\ Subnets[assigned[x][1]].CIDR = assigned[x][2]
               /\ Subnets[assigned[y][1]].CIDR = assigned[y][2]
               /\ ParseCIDR(assigned[x][2]).IP < ParseCIDR(assigned[y][2]).IP

C8_Witness ==
    /\ Succeeded
    /\ \E i, j \in Written, p \in Range(bigSubnets) :
        /\ IsBig(i) /\ IsBig(j)
        /\ j < i
        /\ before[p].CIDR # EmptyString
        /\ Subnets[i].Zone < Subnets[p].Zone
        /\ Subnets[p].Zone < Subnets[j].Zone

\* C9: when no utility subnet lacks a cidr, no surviving block is set aside:
\* all of them, in split order, are there for the primary subnets.
C9_NoSetAside ==
    (/\ pc = "big"
     /\ assigned = <<>>
     /\ \A i \in DOMAIN Subnets : Subnets[i].Type = "Utility" => Subnets[i].CIDR # EmptyString)
        => bigCIDRs = nonOverlapping

\* C10: a run on the declarations a successful run left also succeeds and
\* changes no declaration.
C10_RerunStable ==
    (pc = "return" /\ calls >= 2 /\ prevErr = Nil) => err = Nil /\ Subnets = before

====
